---- MODULE Spec2Model ----
(***************************************************************************)
(* A model of source/appModules/outlook.py, the NVDA app module for        *)
(* Microsoft Outlook.  Each part of the module is a group of variables     *)
(* with its own next-state relation and specification:                     *)
(*   SpecSession   AppModule._get_nativeOm, _registerCOMWithFocusJuggle,   *)
(*                 _get_outlookVersion                                     *)
(*   SpecList      MessageList_pre2003, MessageItem                        *)
(*   SpecMsg       getReceivedMessageString                                *)
(*   SpecRender    CalendarView._generateTimeRangeText                     *)
(*   SpecCal       CalendarView.reportFocus                                *)
(*   SpecRow       UIAGridRow._get_name                                    *)
(*   SpecCls       AppModule.chooseNVDAObjectOverlayClasses                *)
(* The remote object model (COM) is the environment: every call into it    *)
(* either answers or raises, chosen nondeterministically.                  *)
(***************************************************************************)
EXTENDS Integers, Sequences, FiniteSets, TLC

\* ------------------------------------------------------------------------
\* Bounds
\* ------------------------------------------------------------------------
\* History counters saturate at this value.
MaxCount == 3

Sat(n) == IF n < MaxCount THEN n + 1 ELSE MaxCount

\* Messages in the explorer's folder; a message's entryID is its number.
NumMsgs == 3

\* A mail item has at most this many attachments.
MaxAttachments == 2

\* The positions of the document of the mail viewer are 0..DocLen.
DocLen == 4

\* Nested executeEvent calls followed for one incoming event.
MaxDepth == 3

\* Calendar days are numbered 0..MaxDay.
MaxDay == 1

\* CalendarView instances are numbered 1..NumViews.
NumViews == 2

\* ------------------------------------------------------------------------
\* Strings are sequences of one-character strings.
\* ------------------------------------------------------------------------
Digits == <<"0", "1", "2", "3", "4", "5", "6", "7", "8", "9">>

DigitVal(c) == (CHOOSE i \in 1..10 : Digits[i] = c) - 1

\* str.split('.')[0]: the characters before the first dot.
RECURSIVE SplitFirst(_)
SplitFirst(s) ==
    IF s = <<>> \/ Head(s) = "." THEN <<>>
    ELSE <<Head(s)>> \o SplitFirst(Tail(s))

\* int(s) for a string of decimal digits.
RECURSIVE ParseInt(_)
ParseInt(s) ==
    IF s = <<>> THEN 0
    ELSE 10 * ParseInt(SubSeq(s, 1, Len(s) - 1)) + DigitVal(s[Len(s)])

\* The values Application.Version takes in the model (Outlook 2000, 2007,
\* 2010, 2013).
VersionStrings ==
    { <<"9", ".", "0">>,
      <<"1", "0", ".", "0">>,
      <<"1", "2", ".", "0">>,
      <<"1", "4", ".", "0">>,
      <<"1", "5", ".", "0", ".", "4">> }

\* ------------------------------------------------------------------------
\* State
\* ------------------------------------------------------------------------
VARIABLES
    appVersion,      \* Application.Version of the running Outlook
    hasTried,        \* AppModule._hasTriedoutlookAppSwitch
    nativeOmAttr,    \* instance attribute nativeOm: "unset", "None" or "om"
    pumping,         \* the read of nativeOm that is inside the juggle's event pump
    dialogsShown,    \* history: "Waiting for Outlook..." dialogs shown
    errorsLogged,    \* history: log.error calls
    attempts,        \* history: comHelper.getActiveObject calls
    failures,        \* history: getActiveObject calls that raised
    succeeded,       \* history: some getActiveObject call answered
    lastAcquire,     \* history: the last completed read of nativeOm
    firstRead,       \* history: the first integer a read of outlookVersion returned
    firstSettledRead,\* history: the same, among reads begun once the session is settled
    lastRead,        \* history: the last completed read of outlookVersion
    selection,       \* remote: entryID of ActiveExplorer().selection[0], 0 when empty
    curMessageItem,  \* MessageList_pre2003.curMessageItem, NoItem while not set
    lastListOp,      \* history: what the list overlay's last handler did
    msgIn,           \* the record last passed to getReceivedMessageString
    msgOut,          \* the text it returned
    lastStartDate,   \* CalendarView._lastStartDate (class attribute), NoDate for None
    lastDateBy,      \* history: the instance that set _lastStartDate, 0 for none
    lastReport,      \* history: the last completed CalendarView.reportFocus
    rowIn,           \* the grid row whose name is computed and what the remote answers
    rowOut,          \* what UIAGridRow._get_name returned
    clsIn,           \* the object and class list passed to chooseNVDAObjectOverlayClasses
    clsOut,          \* the class list it left
    lastFocus,       \* history: the last completed focus event of a grid client
    docOut,          \* history: the last reads of an OutlookWordDocument's properties
    contactIn,       \* the contact last passed to getContactString
    contactOut,      \* the texts it returned, one per call
    acOut,           \* history: the last AutoCompleteListItem.event_stateChange
    speech,          \* the texts being spoken, oldest first
    docSel,          \* remote: the selection of the mail viewer's document
    lastTab          \* history: the last MailViewerTreeInterceptor.script_tab

sessionVars ==
    <<appVersion, hasTried, nativeOmAttr, pumping, dialogsShown, errorsLogged,
      attempts, failures, succeeded, lastAcquire, firstRead, firstSettledRead,
      lastRead>>

listVars == <<selection, curMessageItem, lastListOp>>

msgVars == <<msgIn, msgOut>>

calVars == <<lastStartDate, lastDateBy, lastReport>>

rowVars == <<rowIn, rowOut>>

clsVars == <<clsIn, clsOut>>

focusVars == <<lastFocus>>

docVars == <<docOut>>

contactVars == <<contactIn, contactOut>>

acVars == <<acOut, speech>>

\* The overlays added after the first ones.
tabVars == <<docSel, lastTab>>

moreVars == <<focusVars, docVars, contactVars, acVars, tabVars>>

vars == <<sessionVars, listVars, msgVars, calVars, rowVars, clsVars, moreVars>>

\* What the actions of one part leave unchanged.
notSession == <<listVars, msgVars, calVars, rowVars, clsVars, moreVars>>

notList == <<sessionVars, msgVars, calVars, rowVars, clsVars, moreVars>>

notMsg == <<sessionVars, listVars, calVars, rowVars, clsVars, moreVars>>

notCal == <<sessionVars, listVars, msgVars, rowVars, clsVars, moreVars>>

NoAcquire == [attempted |-> FALSE, failed |-> FALSE, failIdx |-> 0,
              shown |-> FALSE, ret |-> "unset"]

\* No read of nativeOm is inside the juggle.
NoPump == [caller |-> "no", failIdx |-> 0, self |-> 0]

NoRead == [val |-> -1, raised |-> FALSE, settled |-> FALSE]

\* ------------------------------------------------------------------------
\* Records of what CalendarView did
\* ------------------------------------------------------------------------
NoDate == -1

Midnight0 == [day |-> 0, sec |-> 0]

\* A report that did not reach _generateTimeRangeText.
Report(self, announce, escaped, failAt) ==
    [op |-> "reportFocus", by |-> self, announce |-> announce,
     escaped |-> escaped, failAt |-> failAt, rendered |-> FALSE, start |-> Midnight0, end |-> Midnight0,
     prev |-> NoDate, prevBy |-> 0, timeText |-> <<>>, text |-> <<>>]

NoReport == [Report(0, "none", FALSE, "none") EXCEPT !.op = "none"]

\* The generic announcement: super().reportFocus() of lines 401 and 411, or
\* self.event_valueChange() of line 424.
GenericReport(self, failAt) == Report(self, "generic", FALSE, failAt)

\* An exception leaves reportFocus.
EscapedReport(self, failAt) == Report(self, "none", TRUE, failAt)

\* ------------------------------------------------------------------------
\* AppModule._get_outlookVersion
\* ------------------------------------------------------------------------
\* line 140: the major version of the running Outlook
MajorVersion == ParseInt(SplitFirst(appVersion))

\* _get_outlookVersion, lines 139-143, given the value read from nativeOm and
\* the version string the remote returns.
OutlookVersionOf(nativeOm, versionString) ==
    IF nativeOm = "om" THEN ParseInt(SplitFirst(versionString)) ELSE 0

\* ------------------------------------------------------------------------
\* UIAGridRow
\* ------------------------------------------------------------------------
\* lines 34-38
silentMessageClasses == {"IPM.Appointment", "IPM.Contact", "IPM.Note"}

\* lines 44-63
oleFlagIconLabels ==
    [i \in 1..6 |->
        <<"purple flag", "Orange flag", "Green flag", "Yellow flag",
          "Blue flag", "Red flag">>[i]]

\* lines 65-70
importanceLabels == [i \in {0, 2} |-> IF i = 2 THEN "high importance"
                                      ELSE "low importance"]

\* d.get(key), as a list: the label, or nothing
Get(d, key) == IF key \in DOMAIN d THEN <<d[key]>> ELSE <<>>

\* A failed remote read.
COMError == "COMError"

\* A failed remote read of a number.
COMErrorInt == -1

Max(a, b) == IF a > b THEN a ELSE b

Min(a, b) == IF a < b THEN a ELSE b

\* s.split(" ") for a text whose blanks are pieces of their own
RECURSIVE SplitBlank(_)
SplitBlank(s) ==
    IF s = <<>> THEN <<"">>
    ELSE LET rest == SplitBlank(Tail(s))
         IN  IF Head(s) = " " THEN <<"">> \o rest
             ELSE <<Head(s) \o rest[1]>> \o Tail(rest)

\* list[a:b] with 0 <= a and 0 <= b
Slice(list, a, b) == SubSeq(list, a + 1, Min(b, Len(list)))

\* sep.join(list) for a list of strings
RECURSIVE JoinStr(_, _)
JoinStr(sep, list) ==
    IF list = <<>> THEN ""
    ELSE IF Len(list) = 1 THEN list[1]
    ELSE list[1] \o sep \o JoinStr(sep, Tail(list))

\* lines 433-436
StateLabels(states) ==
    IF states = "expanded" THEN <<"expanded">>
    ELSE IF states = "collapsed" THEN <<"collapsed">>
    ELSE <<>>

\* lines 456-469 with the importance label appended before the attachment one
PropertyLabels_ImportanceFirst(flagIcon, attachmentCount, importance) ==
    Get(oleFlagIconLabels, flagIcon)
    \o Get(importanceLabels, importance)
    \o (IF attachmentCount > 0 THEN <<"has attachment">> ELSE <<>>)

\* lines 456-469: the flag, attachment and importance labels
PropertyLabels(flagIcon, attachmentCount, importance) ==
    Get(oleFlagIconLabels, flagIcon)
    \o (IF attachmentCount > 0 THEN <<"has attachment">> ELSE <<>>)
    \o Get(importanceLabels, importance)

\* lines 470-491 with firstPart 1 for a silent class, whatever the number of
\* tokens
TrailingTokens_FirstTokenOnly(version, unread, messageClass, value) ==
    IF version < 15
    THEN (IF unread THEN <<"unread">> ELSE <<>>)
         \o (IF messageClass = "IPM.Schedule.Meeting.Request"
             THEN <<"meeting request">> ELSE <<>>)
    ELSE IF messageClass # "None"
    THEN LET valueParts == SplitBlank(value)
             valueCount == Len(valueParts)
             lastPart == IF unread THEN valueCount ELSE valueCount - 1
             firstPart == IF messageClass \in silentMessageClasses
                          THEN 1 ELSE 0
         IN  Slice(valueParts, firstPart, lastPart)
    ELSE <<>>

\* lines 470-491: the version-dependent tokens; messageClass is "None" after
\* a failed read
TrailingTokens(version, unread, messageClass, value) ==
    IF version < 15
    THEN (IF unread THEN <<"unread">> ELSE <<>>)
         \o (IF messageClass = "IPM.Schedule.Meeting.Request"
             THEN <<"meeting request">> ELSE <<>>)
    ELSE IF messageClass # "None"
    THEN LET valueParts == SplitBlank(value)
             valueCount == Len(valueParts)
             lastPart == IF unread THEN valueCount ELSE valueCount - 1
             firstPart == IF messageClass \in silentMessageClasses
                          THEN Max(1, valueCount - 2) ELSE 0
         IN  Slice(valueParts, firstPart, lastPart)
    ELSE <<>>

\* lines 503-523: the texts of the cached children
RECURSIVE ChildTexts(_, _)
ChildTexts(children, reportTableHeaders) ==
    IF children = <<>> THEN <<>>
    ELSE LET e == Head(children)
             name == e.name
             columnHeaderItems == IF name # "" /\ reportTableHeaders
                                  THEN e.headers ELSE <<>>
             columnHeaderText == JoinStr(" ", columnHeaderItems)
             text == IF columnHeaderText # ""
                     THEN columnHeaderText \o " " \o name ELSE name
         IN  (IF text # "" THEN <<text \o ",">> ELSE <<>>)
             \o ChildTexts(Tail(children), reportTableHeaders)

NotComputed == [kind |-> "none"]

\* UIAGridRow._get_name, lines 431-524, for the row and remote answers r,
\* given what appModule.nativeOm returns and whether the read of
\* nativeOm.version made by line 470 answers.
GridRowName(r, nativeOm, verOk) ==
    LET hasSelection == nativeOm = "om" /\ r.selection = "ok"
        unread == IF r.unread = COMError THEN FALSE ELSE r.unread = "True"
        messageClass == IF r.messageClass = COMError THEN "None"
                        ELSE r.messageClass
        flagIcon == IF r.flagIcon = COMErrorInt THEN 0 ELSE r.flagIcon
        attachmentCount == IF r.attachmentCount = COMErrorInt THEN 0
                           ELSE r.attachmentCount
        importance == IF r.importance = COMErrorInt THEN 1 ELSE r.importance
        version == OutlookVersionOf(nativeOm, appVersion)
        labels == IF hasSelection
                  THEN PropertyLabels(flagIcon, attachmentCount, importance)
                       \o TrailingTokens(version, unread, messageClass, r.value)
                  ELSE <<>>
        textList == StateLabels(r.states) \o labels
                    \o ChildTexts(r.children, r.reportTableHeaders)
    IN  IF hasSelection /\ ~verOk
        THEN \* line 470: the read of nativeOm.version is not guarded
             [kind |-> "raised", by |-> "version"]
        ELSE IF r.children = <<>>
        THEN \* line 502: super(UIAGridRow, self).name
             [kind |-> "base"]
        ELSE [kind |-> "name", textList |-> textList,
              name |-> JoinStr(" ", textList)]

\* ------------------------------------------------------------------------
\* AppModule.chooseNVDAObjectOverlayClasses
\* ------------------------------------------------------------------------
\* A window class name is the sequence of its pieces, cut where a prefix
\* tested by the code ends: "REListBox20W" is <<"REListBox", "20W">>.
ClassName(name) == JoinStr("", name)

\* name.startswith(prefix), for a prefix that ends where a piece ends
StartsWith(name, prefix) == name # <<>> /\ name[1] = prefix

\* list.remove(x): the first occurrence goes
RECURSIVE Remove(_, _)
Remove(list, x) ==
    IF list = <<>> THEN <<>>
    ELSE IF Head(list) = x THEN Tail(list)
    ELSE <<Head(list)>> \o Remove(Tail(list), x)

\* list.append(x) in the place of list.insert(0, x)
Insert0_Append(list, x) == list \o <<x>>

\* list.insert(0, x)
Insert0(list, x) == <<x>> \o list

In(x, list) == \E i \in DOMAIN list : list[i] = x

\* lines 177-178 testing the window of the object instead of its parent
IsEmbeddedForm_OwnWindow(obj) == ClassName(obj.windowClassName) = "AfxWndW"

\* lines 177-178: the parent window exists and is of class AfxWndW
IsEmbeddedForm(obj) == obj.parentWindow # "none" /\ obj.parentWindow = "AfxWndW"

\* line 170-171
WithGridRow(obj, clsList) ==
    IF obj.backend = "UIA"
       /\ obj.cachedClassName \in {"LeafRow", "ThreadItem", "ThreadHeader"}
    THEN Insert0(clsList, "UIAGridRow") ELSE clsList

\* lines 176-179
WithoutDialog(obj, clsList) ==
    IF In("Dialog", clsList) /\ IsEmbeddedForm(obj)
    THEN Remove(clsList, "Dialog") ELSE clsList

\* lines 180-181
WithWordDocument(clsList) ==
    IF In("WordDocument", clsList)
    THEN Insert0(clsList, "OutlookWordDocument") ELSE clsList

\* lines 187-194
WithFormControl(obj, clsList) ==
    LET role == obj.role
        windowClassName == obj.windowClassName
        controlID == obj.windowControlID
    IN  IF controlID = 4352 /\ role = "ROLE_BUTTON"
        THEN Insert0(clsList, "DatePickerButton")
        ELSE IF role = "ROLE_TABLECELL"
                /\ ClassName(windowClassName) = "rctrl_renwnd32"
        THEN Insert0(clsList, "DatePickerCell")
        ELSE IF ClassName(windowClassName) = "REListBox20W"
                /\ role = "ROLE_CHECKBOX"
        THEN Insert0(clsList, "REListBox20W_CheckBox")
        ELSE IF role = "ROLE_LISTITEM"
                /\ (StartsWith(windowClassName, "REListBox")
                    \/ StartsWith(windowClassName, "NetUIHWND"))
        THEN Insert0(clsList, "AutoCompleteListItem")
        ELSE clsList

\* line 195
IsAddressBookEntry(obj) ==
    obj.role = "ROLE_LISTITEM" /\ ClassName(obj.windowClassName) = "OUTEXVLB"

\* line 198
IsMessageList(obj) ==
    \/ ClassName(obj.windowClassName) = "SUPERGRID" /\ obj.windowControlID = 4704
    \/ ClassName(obj.windowClassName) = "rctrl_renwnd32"
       /\ obj.windowControlID = 109

\* lines 199-203 without the test of line 200 that the version is not 0
WithMessageList_NoZeroTest(obj, clsList, outlookVersion) ==
    IF ~IsMessageList(obj) THEN clsList
    ELSE IF outlookVersion <= 9
    THEN Insert0(clsList, "MessageList_pre2003")
    ELSE IF obj.event_objectID = "OBJID_CLIENT" /\ obj.event_childID = 0
    THEN Insert0(clsList, "SuperGridClient2010")
    ELSE clsList

\* lines 199-203
WithMessageList(obj, clsList, outlookVersion) ==
    IF ~IsMessageList(obj) THEN clsList
    ELSE IF outlookVersion # 0 /\ outlookVersion <= 9
    THEN Insert0(clsList, "MessageList_pre2003")
    ELSE IF obj.event_objectID = "OBJID_CLIENT" /\ obj.event_childID = 0
    THEN Insert0(clsList, "SuperGridClient2010")
    ELSE clsList

\* lines 204-205
WithCalendarView(obj, clsList) ==
    IF \/ ClassName(obj.windowClassName) = "AfxWndW" /\ obj.windowControlID = 109
       \/ ClassName(obj.windowClassName) \in {"WeekViewWnd", "DayViewWnd"}
    THEN Insert0(clsList, "CalendarView") ELSE clsList

\* Line 199 is reached: self.outlookVersion is read.
ReadsVersion(obj) ==
    obj.backend = "IAccessible" /\ ~IsAddressBookEntry(obj) /\ IsMessageList(obj)

NotClassified == [kind |-> "none"]

\* chooseNVDAObjectOverlayClasses(obj, clsList), lines 168-205: the list as
\* the call leaves it, given what appModule.nativeOm returns and whether the
\* read of nativeOm.version made by line 199 answers.
chooseNVDAObjectOverlayClasses(obj, clsList, nativeOm, verOk) ==
    LET c1 == WithGridRow(obj, clsList)
        c2 == WithoutDialog(obj, c1)
        c3 == WithWordDocument(c2)
        c4 == WithFormControl(obj, c3)
        c5 == WithMessageList(obj, c4, OutlookVersionOf(nativeOm, appVersion))
    IN  IF obj.backend # "IAccessible"
        THEN [kind |-> "returned", clsList |-> c1]
        ELSE IF IsAddressBookEntry(obj)
        THEN [kind |-> "returned", clsList |-> Insert0(c4, "AddressBookEntry")]
        ELSE IF IsMessageList(obj) /\ nativeOm = "om" /\ ~verOk
        THEN \* line 199: the exception leaves the call, the list stays as
             \* mutated so far
             [kind |-> "raised", clsList |-> c4]
        ELSE [kind |-> "returned", clsList |-> WithCalendarView(obj, c5)]

\* ------------------------------------------------------------------------
\* SuperGridClient2010.event_gainFocus and eventHandler.executeEvent
\* ------------------------------------------------------------------------
\* What UIA(**kwargs) with relation="focus" gives, lines 233-238: an
\* exception, or the UIA object of the element that has the focus, named by
\* its cached class name.
FocusFetches == {"raises", "LeafRow", "ThreadItem", "ThreadHeader", "Other"}

\* The UIA object of the focused element of the message list.
FetchedNode(cachedClassName) ==
    [backend |-> "UIA", cachedClassName |-> cachedClassName,
     role |-> "ROLE_LISTITEM", windowClassName |-> <<"SUPERGRID">>,
     windowControlID |-> 4704, event_objectID |-> "OBJID_CLIENT",
     event_childID |-> 0, parentWindow |-> "none"]

\* The classes of the object UIA(**kwargs) constructs: the application
\* module's classification is applied to the UIA class list (lines 168-173).
FetchedClasses(cachedClassName, nativeOm) ==
    chooseNVDAObjectOverlayClasses(FetchedNode(cachedClassName), <<"UIA">>,
                                   nativeOm, TRUE).clsList

\* The classes of the object the event arrives on.
GridClientClasses == <<"SuperGridClient2010", "IAccessible">>

\* event_gainFocus resolved as if UIAGridRow inherited the grid client's
\* handler
HandlerClass_RowAsGridClient(clsList) ==
    IF In("SuperGridClient2010", clsList) \/ In("UIAGridRow", clsList)
    THEN "SuperGridClient2010"
    ELSE IF In("MessageList_pre2003", clsList) THEN "MessageList_pre2003"
    ELSE "base"

\* The class whose event_gainFocus runs for an object of these classes:
\* SuperGridClient2010 (line 229) and MessageList_pre2003 (line 264) define
\* one, UIAGridRow (426-549) and MessageItem (306-328) inherit theirs.
HandlerClass(clsList) ==
    IF In("SuperGridClient2010", clsList) THEN "SuperGridClient2010"
    ELSE IF In("MessageList_pre2003", clsList) THEN "MessageList_pre2003"
    ELSE "base"

\* SuperGridClient2010.event_gainFocus, lines 229-243: what the handler does.
\* env.verOk: the read of nativeOm.version made by line 231 answers.
GridClientOutcome(env) ==
    LET version == OutlookVersionOf(env.nativeOm, appVersion)
    IN  IF env.nativeOm = "om" /\ ~env.verOk THEN "raised"
        ELSE IF version < 14 \/ ~env.uiaHandler THEN "base"
        ELSE IF env.fetch = "raises" THEN "base"
        ELSE IF ~In("UIAGridRow", FetchedClasses(env.fetch, env.nativeOm))
        THEN "base"
        ELSE "redispatch"

\* eventHandler.executeEvent("gainFocus",obj) for an object of the classes
\* clsList: the handlers that run, in order, each with what it did.
RECURSIVE executeEvent(_, _, _)
executeEvent(clsList, env, depth) ==
    LET handler == HandlerClass(clsList)
    IN  IF depth > MaxDepth
        THEN <<[handler |-> handler, outcome |-> "not followed"]>>
        ELSE IF handler = "SuperGridClient2010"
        THEN LET outcome == GridClientOutcome(env)
             IN  <<[handler |-> handler, outcome |-> outcome]>>
                 \o (IF outcome = "redispatch"
                     THEN \* lines 242-243
                          executeEvent(FetchedClasses(env.fetch, env.nativeOm),
                                       env, depth + 1)
                     ELSE <<>>)
        ELSE <<[handler |-> handler, outcome |-> "base"]>>

NoFocus == [version |-> -1, uia |-> "not read", fetch |-> "not read",
            reparented |-> FALSE, trace |-> <<>>]

\* One focus event on a grid client, with what the handler consulted.
FocusResult(nativeOm, verOk, uiaHandler, fetch) ==
    LET env == [nativeOm |-> nativeOm, verOk |-> verOk,
                uiaHandler |-> uiaHandler, fetch |-> fetch]
        raised == nativeOm = "om" /\ ~verOk
        version == IF raised THEN -1 ELSE OutlookVersionOf(nativeOm, appVersion)
        readUia == ~raised /\ version >= 14
        trace == executeEvent(GridClientClasses, env, 1)
    IN  [version |-> version,
         uia |-> IF ~readUia THEN "not read"
                 ELSE IF uiaHandler THEN "handler" ELSE "None",
         fetch |-> IF readUia /\ uiaHandler THEN fetch ELSE "not read",
         reparented |-> trace[1].outcome = "redispatch",
         trace |-> trace]

\* ------------------------------------------------------------------------
\* OutlookWordDocument
\* ------------------------------------------------------------------------
\* What activeInspector() gives: an exception, None (no inspector window) or
\* an inspector.
InspectorAnswers == {"COMError", "None", "inspector"}

\* What currentItem.sent gives: the flag, or an exception (an item without
\* the property).
SentAnswers == {"True", "False", "COMError", "AttributeError"}

\* lines 586-591 with a failed query taken for a sent item
isReadonlyViewer_FailureIsReadonly(nativeOm, inspector, sent) ==
    ~(nativeOm = "om" /\ inspector = "inspector" /\ sent = "False")

\* OutlookWordDocument._get_isReadonlyViewer, lines 586-591: None has no
\* activeInspector and no currentItem (AttributeError), and the three
\* exception types are caught.
isReadonlyViewer(nativeOm, inspector, sent) ==
    IF nativeOm # "om" THEN FALSE
    ELSE IF inspector # "inspector" THEN FALSE
    ELSE IF sent \in {"COMError", "AttributeError"} THEN FALSE
    ELSE sent = "True"

\* The properties of the overlay that depend on isReadonlyViewer.
DocProps == <<"treeInterceptorClass", "shouldCreateTreeInterceptor", "role">>

\* Lines 593-602: the value of one of these properties.
DocProperty(prop, readonly) ==
    IF prop = "treeInterceptorClass"
    THEN (IF readonly THEN "MailViewerTreeInterceptor"
          ELSE "super.treeInterceptorClass")
    ELSE IF prop = "shouldCreateTreeInterceptor"
    THEN (IF readonly THEN "True" ELSE "False")
    ELSE (IF readonly THEN "ROLE_DOCUMENT" ELSE "super.role")

NoDoc == [prop |-> "none", ret |-> "None", inspector |-> "None",
          sent |-> "False", value |-> "none"]

\* One read of a property, with what the remote answered.
DocRead(prop, nativeOm, inspector, sent) ==
    [prop |-> prop, ret |-> nativeOm,
     inspector |-> IF nativeOm = "om" THEN inspector ELSE "not read",
     sent |-> IF nativeOm = "om" /\ inspector = "inspector" THEN sent
              ELSE "not read",
     value |-> DocProperty(prop, isReadonlyViewer(nativeOm, inspector, sent))]

\* ------------------------------------------------------------------------
\* AppModule: the remote session
\* ------------------------------------------------------------------------
\* line 128: the error is logged only on the retry
ShouldLog_NoGuard(tried) == TRUE

ShouldLog(tried) == tried

\* line 131: the juggle runs on a failure before any juggle has run
ShouldJuggle_NoGuard(nativeOm, tried) == nativeOm = "None"

ShouldJuggle(nativeOm, tried) == nativeOm = "None" /\ ~tried

\* line 134: self.nativeOm=nativeOm stores the result, None included, as an
\* instance attribute; nativeOm has no setter, so the attribute shadows the
\* getter and later reads of nativeOm return it without calling the getter.
StoreNativeOm_OnlyBound(attr, nativeOm) ==
    IF nativeOm = "None" THEN attr ELSE nativeOm

StoreNativeOm(attr, nativeOm) == nativeOm

\* The session is settled once an attempt answered or the retry failed.
Settled == succeeded \/ failures >= 2

\* A completed read of outlookVersion: verOk says whether the remote read of
\* nativeOm.version answered (it is not guarded, so a failure escapes).
RecordRead(nativeOm, verOk, wasSettled) ==
    LET raised == nativeOm = "om" /\ ~verOk
        v == IF raised THEN -1 ELSE OutlookVersionOf(nativeOm, appVersion)
    IN  /\ lastRead' = [val |-> v, raised |-> raised, settled |-> wasSettled]
        /\ firstRead' = IF firstRead = -1 /\ ~raised THEN v ELSE firstRead
        /\ firstSettledRead' =
              IF firstSettledRead = -1 /\ ~raised /\ wasSettled THEN v
              ELSE firstSettledRead

\* A read of self.nativeOm by `caller`: "acquire" reads nativeOm itself,
\* "version" and "reportFocus" read it through outlookVersion (the history
\* of version reads records those of "version"); comOk says whether getActiveObject
\* answers.  Lines 124-135, and 109-117 of the juggle up to the event pump.
GetNativeOm(caller, self, comOk, verOk) ==
    IF nativeOmAttr # "unset"
    THEN \* the instance attribute answers; the getter does not run
         /\ lastAcquire' = [attempted |-> FALSE, failed |-> FALSE, failIdx |-> 0,
                            shown |-> FALSE, ret |-> nativeOmAttr]
         /\ IF caller = "version"
            THEN RecordRead(nativeOmAttr, verOk, Settled)
            ELSE UNCHANGED <<firstRead, firstSettledRead, lastRead>>
         /\ UNCHANGED <<hasTried, nativeOmAttr, pumping, dialogsShown,
                        errorsLogged, attempts, failures, succeeded>>
    ELSE LET nativeOm == IF comOk THEN "om" ELSE "None"
             nFail == IF comOk THEN failures ELSE Sat(failures)
         IN  /\ attempts' = Sat(attempts)
             /\ failures' = nFail
             /\ succeeded' = (succeeded \/ comOk)
             /\ errorsLogged' = IF ~comOk /\ ShouldLog(hasTried)
                                THEN Sat(errorsLogged) ELSE errorsLogged
             /\ IF ShouldJuggle(nativeOm, hasTried)
                THEN \* _registerCOMWithFocusJuggle: the dialog is shown, the
                     \* flag set, and pending events are processed
                     /\ dialogsShown' = Sat(dialogsShown)
                     /\ hasTried' = TRUE
                     /\ pumping' = [caller |-> caller, failIdx |-> nFail,
                                     self |-> self]
                     /\ UNCHANGED <<nativeOmAttr, lastAcquire, firstRead,
                                    firstSettledRead, lastRead>>
                ELSE /\ nativeOmAttr' = StoreNativeOm(nativeOmAttr, nativeOm)
                     /\ lastAcquire' = [attempted |-> TRUE, failed |-> ~comOk,
                                        failIdx |-> IF comOk THEN 0 ELSE nFail,
                                        shown |-> FALSE, ret |-> nativeOm]
                     /\ IF caller = "version"
                        THEN RecordRead(nativeOm, verOk, Settled)
                        ELSE UNCHANGED <<firstRead, firstSettledRead, lastRead>>
                     /\ UNCHANGED <<hasTried, pumping, dialogsShown>>

\* appModule.nativeOm is read (by an overlay or by the module itself).
\* While the juggle pumps events (line 119) a handler may read it again.
Acquire ==
    /\ \E comOk \in BOOLEAN : GetNativeOm("acquire", 0, comOk, TRUE)
    /\ UNCHANGED <<appVersion, notSession>>

\* appModule.outlookVersion is read, lines 137-143.
ReadVersion ==
    /\ \E comOk \in BOOLEAN, verOk \in BOOLEAN :
          GetNativeOm("version", 0, comOk, verOk)
    /\ UNCHANGED <<appVersion, notSession>>

\* Lines 120-122 and 133: the pump ends, the dialog is destroyed and the
\* getter that started the juggle returns None.
FinishJuggle ==
    /\ pumping # NoPump
    /\ pumping' = NoPump
    /\ lastAcquire' = [attempted |-> TRUE, failed |-> TRUE,
                       failIdx |-> pumping.failIdx, shown |-> TRUE,
                       ret |-> "None"]
    /\ IF pumping.caller = "version"
       THEN RecordRead("None", TRUE, FALSE)
       ELSE UNCHANGED <<firstRead, firstSettledRead, lastRead>>
    /\ IF pumping.caller = "reportFocus"
       THEN \* outlookVersion is 0: line 424, self.event_valueChange()
            /\ lastReport' = GenericReport(pumping.self, "none")
            /\ UNCHANGED <<lastStartDate, lastDateBy>>
       ELSE UNCHANGED calVars
    /\ IF pumping.caller = "classify"
       THEN \* outlookVersion is 0 at line 199
            /\ clsOut' = chooseNVDAObjectOverlayClasses(
                             clsIn.obj, clsIn.clsList, "None", TRUE)
            /\ UNCHANGED clsIn
       ELSE UNCHANGED clsVars
    /\ IF pumping.caller = "gridFocus"
       THEN \* outlookVersion is 0 at line 231
            lastFocus' = FocusResult("None", TRUE, FALSE, "raises")
       ELSE UNCHANGED focusVars
    /\ IF pumping.caller = "gridRow"
       THEN \* nativeOm is None: line 438 skips the selection
            /\ rowOut' = GridRowName(rowIn, "None", TRUE)
            /\ UNCHANGED rowIn
       ELSE UNCHANGED rowVars
    /\ UNCHANGED <<appVersion, hasTried, nativeOmAttr, dialogsShown,
                   errorsLogged, attempts, failures, succeeded, listVars,
                   msgVars, contactVars, acVars, tabVars>>
    /\ IF pumping.caller = "document"
       THEN \* nativeOm is None: AttributeError at line 589
            docOut' = DocRead(DocProps[pumping.self], "None", "None", "False")
       ELSE UNCHANGED docVars

\* ------------------------------------------------------------------------
\* MessageList_pre2003 and MessageItem
\* ------------------------------------------------------------------------
\* Python's None as an object, and as the value of oldEntryID (no entryID is 0).
None == [kind |-> "None"]

NoEntryID == 0

\* The remote message whose entryID is n.
Msg(n) == [kind |-> "msg", entryID |-> n]

\* The list overlay object (self in MessageList_pre2003's methods).
ListObj == [kind |-> "MessageList_pre2003", windowHandle |-> 1]

\* hasattr(self,'curMessageItem') is false.
NoItem == [kind |-> "absent"]

Raised == [kind |-> "raised"]

\* __moveByMessageGestures, lines 294-300
MoveByMessageGestures ==
    {"kb:downArrow", "kb:upArrow", "kb:home", "kb:end", "kb:delete"}

\* MessageItem.__init__(self,windowHandle=None,parent=None,msg=None),
\* lines 308-315.  The raise names ArguementError, which is not defined, so
\* what is raised is a NameError: construction fails either way.
MessageItemInit(windowHandle, parent, msg) ==
    IF parent = None \/ msg = None
    THEN Raised
    ELSE [kind |-> "MessageItem", msg |-> msg, parent |-> parent,
          windowHandle |-> IF windowHandle = None THEN parent.windowHandle
                           ELSE windowHandle]

\* The call MessageItem(self,msg) of lines 271 and 288: the two arguments are
\* positional, so they bind windowHandle and parent, and msg is left None.
NewMessageItem(self, msg) == MessageItemInit(self, msg, None)

\* self.nativeOm.ActiveExplorer().selection[0] under try/except, lines
\* 265-269 and 282-286: any failure, an empty selection included, gives None.
ReadSelection(sel, selOk) == IF selOk /\ sel # 0 THEN Msg(sel) ELSE None

\* script_moveByMessage, lines 276-292.  idOk: the read of the held item's
\* entryID answers (it is not guarded); newSel: the remote selection after
\* gesture.send(); selOk: the read of the selection answers.
script_moveByMessage(gesture, idOk, newSel, selOk) ==
    LET hasItem == curMessageItem # NoItem
        oldEntryID == IF hasItem THEN curMessageItem.msg.entryID ELSE NoEntryID
        msg == ReadSelection(newSel, selOk)
        messageItem == IF msg # None THEN NewMessageItem(ListObj, msg) ELSE NoItem
        op == [op |-> gesture, old |-> oldEntryID, live |-> newSel,
               readOk |-> selOk, events |-> 0, target |-> NoItem, baseRan |-> FALSE,
               raised |-> FALSE]
    IN  IF hasItem /\ ~idOk
        THEN \* the exception escapes before the key is sent
             /\ lastListOp' = [op EXCEPT !.live = selection, !.raised = TRUE]
             /\ UNCHANGED <<selection, curMessageItem>>
        ELSE /\ selection' = newSel
             /\ IF msg = None
                THEN /\ lastListOp' = op
                     /\ UNCHANGED curMessageItem
                ELSE IF messageItem = Raised
                THEN /\ lastListOp' = [op EXCEPT !.raised = TRUE]
                     /\ UNCHANGED curMessageItem
                ELSE IF messageItem.msg.entryID # oldEntryID
                THEN /\ curMessageItem' = messageItem
                     /\ lastListOp' = [op EXCEPT !.events = 1,
                                                 !.target = messageItem]
                ELSE /\ lastListOp' = op
                     /\ UNCHANGED curMessageItem

MoveByMessage ==
    \E gesture \in MoveByMessageGestures, idOk \in BOOLEAN,
          newSel \in 0..NumMsgs, selOk \in BOOLEAN :
            /\ script_moveByMessage(gesture, idOk, newSel, selOk)
            /\ UNCHANGED notList

\* MessageList_pre2003.event_gainFocus, lines 264-274.
event_gainFocus_list(selOk) ==
    LET msg == ReadSelection(selection, selOk)
        messageItem == IF msg # None THEN NewMessageItem(ListObj, msg) ELSE NoItem
        op == [op |-> "gainFocus", old |-> NoEntryID, live |-> selection,
               readOk |-> selOk, events |-> 0, target |-> NoItem, baseRan |-> FALSE,
               raised |-> FALSE]
    IN  IF messageItem = Raised
        THEN \* line 271 raises: neither the base handler nor the event runs
             /\ lastListOp' = [op EXCEPT !.raised = TRUE]
             /\ UNCHANGED <<selection, curMessageItem>>
        ELSE /\ curMessageItem' = IF msg # None THEN messageItem ELSE curMessageItem
             /\ lastListOp' = [op EXCEPT !.baseRan = TRUE,
                                         !.events = IF msg # None THEN 1 ELSE 0,
                                         !.target = IF msg # None THEN messageItem
                                                    ELSE NoItem]
             /\ UNCHANGED selection

ListGainFocus ==
    /\ \E selOk \in BOOLEAN : event_gainFocus_list(selOk)
    /\ UNCHANGED notList

\* MessageList_pre2003._get_firstChild, lines 254-255:
\* getattr(self,"curMessageItem",None)
firstChild == IF curMessageItem = NoItem THEN None ELSE curMessageItem

\* MessageList_pre2003._get_children, lines 257-262
listChildren == IF firstChild # None THEN <<firstChild>> ELSE <<>>

\* The selection changes in Outlook without a bound gesture (mouse, new mail).
RemoteSelectionChanges ==
    /\ \E newSel \in 0..NumMsgs : newSel # selection /\ selection' = newSel
    /\ UNCHANGED <<curMessageItem, lastListOp, notList>>

InitList ==
    /\ selection = 0
    /\ curMessageItem = NoItem
    /\ lastListOp = [op |-> "none", old |-> NoEntryID, live |-> 0,
                     readOk |-> FALSE, events |-> 0,
                     target |-> NoItem, baseRan |-> FALSE, raised |-> FALSE]

\* ------------------------------------------------------------------------
\* Formatting helpers.  A text is a sequence of pieces (strings); the text
\* it stands for is their concatenation.
\* ------------------------------------------------------------------------
\* sep.join(list) for a list of texts
RECURSIVE Join(_, _)
Join(sep, list) ==
    IF list = <<>> THEN <<>>
    ELSE IF Len(list) = 1 THEN list[1]
    ELSE list[1] \o <<sep>> \o Join(sep, Tail(list))

\* "%s %s"%(a,text)
Fmt2(a, text) == <<a, " ">> \o text

\* lines 76-83: the sender, subject and received time joined with ", "
ReceivedNameList(obj) ==
    << <<obj.senderName>>,
       <<"subject: ", obj.subject>>,
       <<"received: ", obj.receivedTime>> >>

\* getReceivedMessageString with the two prefixes applied in the other order
getReceivedMessageString_UnreadLast(obj) ==
    LET text0 == Join(", ", ReceivedNameList(obj))
        text1 == IF obj.attachmentCount > 0 THEN Fmt2("attachment", text0) ELSE text0
    IN  IF obj.unread THEN Fmt2("unread", text1) ELSE text1

\* getReceivedMessageString, lines 75-89
getReceivedMessageString(obj) ==
    LET text0 == Join(", ", ReceivedNameList(obj))
        text1 == IF obj.unread THEN Fmt2("unread", text0) ELSE text0
    IN  IF obj.attachmentCount > 0 THEN Fmt2("attachment", text1) ELSE text1

Senders == {"Alice", "Bob", "unread"}

Subjects == {"Hi", "Re: Hi", "attachment"}

ReceivedTimes == {"2024-01-01T10:00", "2024-01-02T09:30"}

ReceivedMessages ==
    [senderName : Senders, subject : Subjects, receivedTime : ReceivedTimes,
     unread : BOOLEAN, attachmentCount : 0..MaxAttachments]

\* MessageItem._get_name for a mail item (Class 43), lines 321-322
FormatReceived ==
    \E obj \in ReceivedMessages :
        /\ msgIn' = obj
        /\ msgOut' = getReceivedMessageString(obj)
        /\ UNCHANGED notMsg

NoMsg == [senderName |-> "", subject |-> "", receivedTime |-> "",
          unread |-> FALSE, attachmentCount |-> 0]

InitMsg ==
    /\ msgIn = NoMsg
    /\ msgOut = <<>>

\* ------------------------------------------------------------------------
\* CalendarView
\* ------------------------------------------------------------------------
\* line 42
SECONDS_PER_DAY == 86400

\* Times of day, in seconds after midnight: 00:00:00, 00:00:30, 10:00:00
TimesOfDay == {0, 30, 36000}

\* A datetime: a day and a time of day.
Instants == [day : 0..MaxDay, sec : TimesOfDay]

Secs(t) == t.day * SECONDS_PER_DAY + t.sec

\* The start and end of an appointment or of the selected time range.
Slots == {sl \in Instants \X Instants : Secs(sl[1]) <= Secs(sl[2])}

\* The slots reportFocus is run on: those that start and end at midnight.
ReportSlots ==
    UNION { { <<[day |-> d1, sec |-> 0], [day |-> d2, sec |-> 0]>> :
                d2 \in d1..MaxDay } : d1 \in 0..MaxDay }

CalendarViews == 1..NumViews

Hour(t) == t.sec \div 3600

Minute(t) == (t.sec % 3600) \div 60

Second(t) == t.sec % 60

\* winKernel.GetTimeFormatEx(..., TIME_NOSECONDS, t, None)
TimeFormat(t) == ToString(Hour(t)) \o ":" \o ToString(Minute(t))

\* winKernel.GetDateFormatEx(..., DATE_LONGDATE, t, None)
DateFormat(t) == "day " \o ToString(t.day)

\* line 368, with the comparison against the recorded date left out
NeedsStartDate_NoCompare(last, startDate, endDate) ==
    last = NoDate \/ endDate # startDate

\* line 368
NeedsStartDate(last, startDate, endDate) ==
    last = NoDate \/ startDate # last \/ endDate # startDate

\* lines 373-374: the start is at midnight and the end's date is the day
\* after the start's date
IsAllDay(startTime, endTime) ==
    /\ <<Hour(startTime), Minute(startTime), Second(startTime)>> = <<0, 0, 0>>
    /\ (endTime.day - startTime.day) * SECONDS_PER_DAY = SECONDS_PER_DAY

\* CalendarView._generateTimeRangeText, lines 363-380: the text returned when
\* _lastStartDate is `last` (line 371 sets it to the start's date).
generateTimeRangeText(last, startTime, endTime) ==
    LET startDate == startTime.day
        endDate == endTime.day
        startDateText == DateFormat(startTime)
        startText == IF NeedsStartDate(last, startDate, endDate)
                     THEN <<startDateText, " ", TimeFormat(startTime)>>
                     ELSE <<TimeFormat(startTime)>>
    IN  IF endDate # startDate
        THEN IF IsAllDay(startTime, endTime)
             THEN <<startDateText, " (all day)">>
             ELSE startText \o <<" to ">>
                  \o <<DateFormat(endTime), " ", TimeFormat(endTime)>>
        ELSE startText \o <<" to ">> \o <<TimeFormat(endTime)>>

\* The remote calls of reportFocus in the order they are made, lines 393-399
\* for a selected appointment and 393-395, 406-419 for a time range.
ReportCalls(count) ==
    IF count > 0
    THEN <<"activeExplorer", "selection", "count", "item", "start", "end",
           "subject">>
    ELSE <<"activeExplorer", "selection", "count", "currentView",
           "selectedStartTime", "selectedEndTime", "items", "sort",
           "IncludeRecurrences", "find">>

\* The calls inside try/except COMError, lines 397-401 and 407-411
GuardedCalls == {"start", "end", "selectedStartTime", "selectedEndTime"}

\* The calls made after _generateTimeRangeText has run, lines 404 and 416-419
CallsAfterRender == {"subject", "items", "sort", "IncludeRecurrences", "find"}

ApptSubject == "Standup"

\* reportFocus from line 392 on, once outlookVersion has been read through
\* nativeOm.  failAt is the first remote call that raises COMError ("none"
\* when all answer); slot and found are what the remote answers.
CalendarReport(self, nativeOm, count, failAt, slot, found) ==
    LET version == OutlookVersionOf(nativeOm, appVersion)
        t == generateTimeRangeText(lastStartDate, slot[1], slot[2])
        text == IF count > 0
                THEN <<"Appointment ", ApptSubject, ", ">> \o t
                ELSE IF found THEN <<"Has appointment", " ">> \o t
                ELSE t
        rendered == [op |-> "reportFocus", by |-> self,
                     announce |-> "none", escaped |-> TRUE,
                     failAt |-> failAt, rendered |-> TRUE, start |-> slot[1],
                     end |-> slot[2], prev |-> lastStartDate,
                     prevBy |-> lastDateBy, timeText |-> t, text |-> <<>>]
    IN  IF nativeOm = "om" /\ failAt = "version"
        THEN /\ lastReport' = EscapedReport(self, failAt)
             /\ UNCHANGED <<lastStartDate, lastDateBy>>
        ELSE IF ~(version >= 13 /\ nativeOm = "om")
        THEN /\ lastReport' = GenericReport(self, "none")
             /\ UNCHANGED <<lastStartDate, lastDateBy>>
        ELSE IF failAt \in GuardedCalls
        THEN /\ lastReport' = GenericReport(self, failAt)
             /\ UNCHANGED <<lastStartDate, lastDateBy>>
        ELSE IF failAt # "none" /\ failAt \notin CallsAfterRender
        THEN /\ lastReport' = EscapedReport(self, failAt)
             /\ UNCHANGED <<lastStartDate, lastDateBy>>
        ELSE \* _generateTimeRangeText runs: line 371 records the start date
             /\ lastStartDate' = slot[1].day
             /\ lastDateBy' = self
             /\ lastReport' =
                  IF failAt = "none"
                  THEN [rendered EXCEPT !.announce = "calendar",
                                        !.escaped = FALSE, !.text = text]
                  ELSE rendered

\* A call of _generateTimeRangeText(startTime, endTime) on the instance
\* `self`, lines 363-380.
GenerateTimeRangeText ==
    \E self \in CalendarViews, slot \in Slots :
        /\ lastStartDate' = slot[1].day
        /\ lastDateBy' = self
        /\ lastReport' =
             [op |-> "render", by |-> self, announce |-> "none",
              escaped |-> FALSE, failAt |-> "none", rendered |-> TRUE,
              start |-> slot[1], end |-> slot[2], prev |-> lastStartDate,
              prevBy |-> lastDateBy,
              timeText |-> generateTimeRangeText(lastStartDate, slot[1], slot[2]),
              text |-> <<>>]
        /\ UNCHANGED notCal

Range(f) == {f[i] : i \in DOMAIN f}

DefaultSlot == <<Midnight0, Midnight0>>

\* CalendarView.reportFocus, lines 391-424, on the instance `self`.
ReportFocus ==
    \E self \in CalendarViews,
       comOk \in (IF nativeOmAttr = "unset" THEN BOOLEAN ELSE {TRUE}) :
        LET nativeOm == IF nativeOmAttr # "unset" THEN nativeOmAttr
                        ELSE IF comOk THEN "om" ELSE "None"
            juggled == nativeOmAttr = "unset" /\ ShouldJuggle(nativeOm, hasTried)
            calendar == nativeOm = "om" /\ MajorVersion >= 13
        IN  \E count \in (IF calendar THEN {0, 1} ELSE {0}) :
            \E failAt \in (IF calendar
                           THEN {"none", "version"} \cup Range(ReportCalls(count))
                           ELSE IF nativeOm = "om" THEN {"none", "version"}
                           ELSE {"none"}) :
            \E slot \in (IF calendar /\ failAt \in CallsAfterRender \cup {"none"}
                         THEN ReportSlots ELSE {DefaultSlot}),
               found \in (IF calendar /\ failAt = "none" /\ count = 0
                          THEN BOOLEAN ELSE {FALSE}) :
                /\ GetNativeOm("reportFocus", self, comOk, failAt # "version")
                /\ IF juggled
                   THEN UNCHANGED calVars
                   ELSE CalendarReport(self, nativeOm, count, failAt, slot, found)
                /\ UNCHANGED <<appVersion, listVars, msgVars, rowVars, clsVars,
                               moreVars>>

InitCal ==
    /\ lastStartDate = NoDate
    /\ lastDateBy = 0
    /\ lastReport = NoReport

\* ------------------------------------------------------------------------
\* getContactString
\* ------------------------------------------------------------------------
\* The characters str.isspace takes for blank, among those of ContactTexts.
Whitespace == {" ", "\t"}

\* x.isspace(): at least one character and all of them blank
IsSpace(x) == x # <<>> /\ \A i \in DOMAIN x : x[i] \in Whitespace

\* line 73 keeping every field that is not empty
KeepField_NonEmpty(x) == x # <<>>

\* line 73: x and not x.isspace()
KeepField(x) == x # <<>> /\ ~IsSpace(x)

\* getContactString, lines 72-73
getContactString(obj) ==
    Join(", ", SelectSeq(<<obj.fullName, obj.companyName, obj.jobTitle,
                           obj.email1address>>, KeepField))

\* The texts of a field, as pieces: empty, blank, plain, with a leading blank.
ContactTexts(word) == { <<>>, <<" ">>, <<" ", "\t">>, <<word>>, <<" ", word>> }

Contacts ==
    [fullName : ContactTexts("Ann Lee"), companyName : ContactTexts("Acme"),
     jobTitle : ContactTexts("CTO"), email1address : ContactTexts("ann@acme")]

\* getContactString is called on the contact.
GetContactString ==
    /\ Len(contactOut) < MaxCount
    /\ contactOut' = Append(contactOut, getContactString(contactIn))
    /\ UNCHANGED <<contactIn, sessionVars, listVars, msgVars, calVars, rowVars,
                   clsVars, focusVars, docVars, acVars, tabVars>>

\* ------------------------------------------------------------------------
\* AutoCompleteListItem
\* ------------------------------------------------------------------------
FocusRoles == {"ROLE_EDITABLETEXT", "ROLE_BUTTON", "ROLE_LISTITEM", "ROLE_LIST"}

ItemStates ==
    SUBSET {"STATE_SELECTED", "STATE_INVISIBLE", "STATE_UNAVAILABLE",
            "STATE_OFFSCREEN", "STATE_FOCUSABLE"}

ItemNames == {"ann@acme", "bob@acme"}

\* line 353 without the test of STATE_OFFSCREEN
ShouldSpeak_OffscreenToo(focusRole, states) ==
    /\ focusRole = "ROLE_EDITABLETEXT" \/ focusRole = "ROLE_BUTTON"
    /\ "STATE_SELECTED" \in states
    /\ "STATE_INVISIBLE" \notin states
    /\ "STATE_UNAVAILABLE" \notin states

\* The condition of line 353.
ShouldSpeak(focusRole, states) ==
    /\ focusRole = "ROLE_EDITABLETEXT" \/ focusRole = "ROLE_BUTTON"
    /\ "STATE_SELECTED" \in states
    /\ "STATE_INVISIBLE" \notin states
    /\ "STATE_UNAVAILABLE" \notin states
    /\ "STATE_OFFSCREEN" \notin states

\* speech.cancelSpeech(): what is being spoken is dropped
cancelSpeech(inFlight) == <<>>

\* ui.message(text): the text is spoken after what is being spoken
message(inFlight, text) == Append(inFlight, text)

NoStateChange == [focusRole |-> "none", states |-> {}, name |-> "",
                  before |-> <<>>, calls |-> <<>>]

\* AutoCompleteListItem.event_stateChange, lines 350-355, on an item of the
\* given states and name while the focus object has the given role.
event_stateChange ==
    \E focusRole \in FocusRoles, states \in ItemStates, name \in ItemNames :
        /\ IF ShouldSpeak(focusRole, states)
           THEN /\ speech' = message(cancelSpeech(speech), name)
                /\ acOut' = [focusRole |-> focusRole, states |-> states,
                             name |-> name, before |-> speech,
                             calls |-> <<"cancelSpeech", "message">>]
           ELSE /\ speech' = speech
                /\ acOut' = [focusRole |-> focusRole, states |-> states,
                             name |-> name, before |-> speech,
                             calls |-> <<>>]
        /\ UNCHANGED <<sessionVars, listVars, msgVars, calVars, rowVars,
                       clsVars, focusVars, docVars, contactVars, tabVars>>

\* Something else is spoken (a key echo, another announcement).
OtherSpeech ==
    /\ Len(speech) < MaxCount
    /\ speech' = Append(speech, "other")
    /\ acOut' = NoStateChange
    /\ UNCHANGED <<sessionVars, listVars, msgVars, calVars, rowVars,
                   clsVars, focusVars, docVars, contactVars, tabVars>>

\* ------------------------------------------------------------------------
\* MailViewerTreeInterceptor.script_tab
\* ------------------------------------------------------------------------
\* A range of the document, from start up to end; collapsed when they are
\* equal.
Ranges == {r \in [start : 0..DocLen, end : 0..DocLen] : r.start <= r.end}

NoRange == [start |-> -1, end |-> -1]

\* The cells of the table of the document.
TableCells == {[start |-> 1, end |-> 2], [start |-> 2, end |-> 3]}

\* info.isCollapsed
IsCollapsed(r) == r.start = r.end

\* The range is in the cell: it starts in it when collapsed, it overlaps it
\* otherwise.
InCell(r, cell) ==
    IF IsCollapsed(r) THEN cell.start <= r.start /\ r.start < cell.end
    ELSE r.start < cell.end /\ r.end > cell.start

\* line 570: info._rangeObj.tables.count>0
InTable(r) == \E cell \in TableCells : InCell(r, cell)

\* line 573 leaving the range as it is
ExpandCell_NoExpansion(r) == r

\* line 573: info.expand(textInfos.UNIT_CELL), the cell the range starts in
ExpandCell(r) ==
    CHOOSE cell \in TableCells : cell.start <= r.start /\ r.start < cell.end

\* line 566: rootNVDAObject._hasCaretMoved(bookmark) tells whether the caret
\* is where the bookmark taken before the key was (that method is not part
\* of outlook.py; it is taken to give the pair the call unpacks).
HasCaretMoved(bookmark, caret) == caret # bookmark

TabGestures == {"kb:tab", "kb:shift+tab"}

NoTab == [gesture |-> "none", bookmark |-> NoRange, selection |-> NoRange,
          calls |-> <<>>, spoken |-> NoRange]

\* MailViewerTreeInterceptor.script_tab, lines 563-577: the calls it makes
\* and the range it speaks, newSel being the selection after the key.
script_tab(gesture, newSel) ==
    LET bookmark == docSel
        caretMoved == HasCaretMoved(bookmark, newSel)
        inTable == InTable(newSel)
        expanded == inTable /\ IsCollapsed(newSel)
        info == IF expanded THEN ExpandCell(newSel) ELSE newSel
        isCollapsed == IF expanded THEN FALSE ELSE IsCollapsed(newSel)
    IN  [gesture |-> gesture, bookmark |-> bookmark, selection |-> newSel,
         calls |-> <<"gesture.send">>
                   \o (IF ~caretMoved THEN <<>>
                       ELSE (IF ~isCollapsed THEN <<"speakTextInfo">> ELSE <<>>)
                            \o <<"handleCaretMove">>),
         spoken |-> IF caretMoved /\ ~isCollapsed THEN info ELSE NoRange]

\* Tab or shift+tab is pressed in the read-only mail viewer.
Tab ==
    /\ \E gesture \in TabGestures, newSel \in Ranges :
        /\ docSel' = newSel
        /\ lastTab' = script_tab(gesture, newSel)
    /\ UNCHANGED <<sessionVars, listVars, msgVars, calVars, rowVars, clsVars,
                   focusVars, docVars, contactVars, acVars>>

InitTab ==
    /\ docSel = [start |-> 0, end |-> 0]
    /\ lastTab = NoTab

\* ------------------------------------------------------------------------
\* UIAGridRow: the inputs and the action
\* ------------------------------------------------------------------------
\* The value strings of a row (UIA value), blanks as pieces of their own.
RowValues ==
    { <<"Message", " ", "Read">>,
      <<"Message", " ", "Replied", " ", "Read">>,
      <<"Message", " ", "Replied", " ", "Forwarded", " ", "Unread">>,
      <<"Meeting", " ", "request", " ", "Replied", " ", "Read">> }

RowChildren ==
    { <<>>,
      <<[name |-> "Alice", headers |-> <<"From">>],
        [name |-> "", headers |-> <<"Subject">>],
        [name |-> "Hi", headers |-> <<>>]>> }

RowInputs ==
    [states : {"expanded", "collapsed", "none"},
     selection : {"ok", COMError},
     unread : {"True", "False", COMError},
     messageClass : {"IPM.Note", "IPM.Schedule.Meeting.Request", "IPM.Post",
                     COMError},
     flagIcon : {0, 2, COMErrorInt},
     attachmentCount : {0, 1, COMErrorInt},
     importance : {0, 1, 2, COMErrorInt},
     value : RowValues,
     children : RowChildren,
     reportTableHeaders : BOOLEAN]

DefaultRow ==
    [states |-> "none", selection |-> "ok", unread |-> "False",
     messageClass |-> "IPM.Note", flagIcon |-> 0, attachmentCount |-> 0,
     importance |-> 1, value |-> <<"Message", " ", "Read">>,
     children |-> <<>>, reportTableHeaders |-> FALSE]

\* The name of the row is read: UIAGridRow._get_name, lines 431-524.
GetGridRowName ==
    /\ rowOut = NotComputed
    /\ pumping = NoPump
    /\ \E comOk \in (IF nativeOmAttr = "unset" THEN BOOLEAN ELSE {TRUE}) :
        LET nativeOm == IF nativeOmAttr # "unset" THEN nativeOmAttr
                        ELSE IF comOk THEN "om" ELSE "None"
            juggled == nativeOmAttr = "unset" /\ ShouldJuggle(nativeOm, hasTried)
        IN  \E verOk \in (IF nativeOm = "om" /\ rowIn.selection = "ok"
                          THEN BOOLEAN ELSE {TRUE}) :
                /\ GetNativeOm("gridRow", 0, comOk, TRUE)
                /\ IF juggled
                   THEN UNCHANGED rowOut
                   ELSE rowOut' = GridRowName(rowIn, nativeOm, verOk)
    /\ UNCHANGED <<appVersion, rowIn, listVars, msgVars, calVars, clsVars,
                   moreVars>>

InitRow ==
    /\ rowIn = DefaultRow
    /\ rowOut = NotComputed

\* ------------------------------------------------------------------------
\* chooseNVDAObjectOverlayClasses: the inputs and the action
\* ------------------------------------------------------------------------
WindowClassNames ==
    { <<"rctrl_renwnd32">>, <<"REListBox", "20W">>, <<"REListBox", "50W">>,
      <<"NetUIHWND">>, <<"OUTEXVLB">>, <<"SUPERGRID">>, <<"AfxWndW">>,
      <<"WeekViewWnd">>, <<"DayViewWnd">>, <<"#32770">> }

Roles == {"ROLE_BUTTON", "ROLE_TABLECELL", "ROLE_CHECKBOX", "ROLE_LISTITEM",
          "ROLE_DIALOG"}

ControlIDs == {4352, 4704, 109, 0}

\* The class lists the generic logic hands over for an object of a backend.
CandidateLists(backend) ==
    { <<backend>>, <<"Dialog", backend>>, <<"WordDocument", backend>>,
      <<"Dialog", "WordDocument", backend>> }

Nodes ==
    { n \in [backend : {"IAccessible", "UIA", "Window"},
             cachedClassName : {"LeafRow", "ThreadItem", "ThreadHeader",
                                "Other", "n/a"},
             role : Roles,
             windowClassName : WindowClassNames,
             windowControlID : ControlIDs,
             event_objectID : {"OBJID_CLIENT", "OBJID_WINDOW"},
             event_childID : {0, 1},
             parentWindow : {"none", "AfxWndW", "#32770"}] :
        /\ (n.cachedClassName = "n/a") = (n.backend # "UIA")
        /\ n.event_objectID = "OBJID_WINDOW" => n.event_childID = 0 }

ClassifyInputs ==
    UNION { [obj : {n}, clsList : CandidateLists(n.backend)] : n \in Nodes }

DefaultNode ==
    [obj |-> [backend |-> "IAccessible", cachedClassName |-> "n/a",
              role |-> "ROLE_DIALOG", windowClassName |-> <<"#32770">>,
              windowControlID |-> 0, event_objectID |-> "OBJID_WINDOW",
              event_childID |-> 0, parentWindow |-> "none"],
     clsList |-> <<"IAccessible">>]

\* An object is classified: chooseNVDAObjectOverlayClasses, lines 168-205.
Classify ==
    /\ clsOut = NotClassified
    /\ pumping = NoPump
    /\ IF ReadsVersion(clsIn.obj)
       THEN \E comOk \in (IF nativeOmAttr = "unset" THEN BOOLEAN ELSE {TRUE}) :
            LET nativeOm == IF nativeOmAttr # "unset" THEN nativeOmAttr
                            ELSE IF comOk THEN "om" ELSE "None"
                juggled == nativeOmAttr = "unset"
                           /\ ShouldJuggle(nativeOm, hasTried)
            IN  \E verOk \in (IF nativeOm = "om" THEN BOOLEAN ELSE {TRUE}) :
                    /\ GetNativeOm("classify", 0, comOk, TRUE)
                    /\ IF juggled
                       THEN UNCHANGED clsOut
                       ELSE clsOut' = chooseNVDAObjectOverlayClasses(
                                          clsIn.obj, clsIn.clsList, nativeOm, verOk)
                    /\ UNCHANGED appVersion
       ELSE /\ clsOut' = chooseNVDAObjectOverlayClasses(
                             clsIn.obj, clsIn.clsList, "None", TRUE)
            /\ UNCHANGED sessionVars
    /\ UNCHANGED <<clsIn, listVars, msgVars, calVars, rowVars, moreVars>>

InitCls ==
    /\ clsIn = DefaultNode
    /\ clsOut = NotClassified

InitSession ==
    /\ appVersion \in VersionStrings
    /\ hasTried = FALSE
    /\ nativeOmAttr = "unset"
    /\ pumping = NoPump
    /\ dialogsShown = 0
    /\ errorsLogged = 0
    /\ attempts = 0
    /\ failures = 0
    /\ succeeded = FALSE
    /\ lastAcquire = NoAcquire
    /\ firstRead = -1
    /\ firstSettledRead = -1
    /\ lastRead = NoRead

\* A focus event arrives on a grid client: SuperGridClient2010.event_gainFocus,
\* lines 229-243.
GridGainFocus ==
    /\ pumping = NoPump
    /\ \E comOk \in (IF nativeOmAttr = "unset" THEN BOOLEAN ELSE {TRUE}),
          verOk \in BOOLEAN, uiaHandler \in BOOLEAN, fetch \in FocusFetches :
        LET nativeOm == IF nativeOmAttr # "unset" THEN nativeOmAttr
                        ELSE IF comOk THEN "om" ELSE "None"
            juggled == nativeOmAttr = "unset" /\ ShouldJuggle(nativeOm, hasTried)
        IN  /\ GetNativeOm("gridFocus", 0, comOk, TRUE)
            /\ IF juggled
               THEN UNCHANGED lastFocus
               ELSE lastFocus' = FocusResult(nativeOm, verOk, uiaHandler, fetch)
    /\ UNCHANGED <<appVersion, listVars, msgVars, calVars, rowVars, clsVars,
                   docVars, contactVars, acVars, tabVars>>

\* A property of an OutlookWordDocument is read, lines 586-602.
ReadDocProperty ==
    /\ pumping = NoPump
    /\ \E p \in DOMAIN DocProps,
          comOk \in (IF nativeOmAttr = "unset" THEN BOOLEAN ELSE {TRUE}),
          inspector \in InspectorAnswers, sent \in SentAnswers :
        LET nativeOm == IF nativeOmAttr # "unset" THEN nativeOmAttr
                        ELSE IF comOk THEN "om" ELSE "None"
            juggled == nativeOmAttr = "unset" /\ ShouldJuggle(nativeOm, hasTried)
        IN  /\ GetNativeOm("document", p, comOk, TRUE)
            /\ IF juggled
               THEN UNCHANGED docOut
               ELSE docOut' = DocRead(DocProps[p], nativeOm, inspector, sent)
    /\ UNCHANGED <<appVersion, listVars, msgVars, calVars, rowVars, clsVars,
                   focusVars, contactVars, acVars, tabVars>>

InitMore ==
    /\ lastFocus = NoFocus
    /\ docOut = NoDoc
    /\ contactIn = [fullName |-> <<>>, companyName |-> <<>>, jobTitle |-> <<>>,
                    email1address |-> <<>>]
    /\ contactOut = <<>>
    /\ acOut = NoStateChange
    /\ speech = <<>>
    /\ InitTab

Init ==
    /\ InitSession /\ InitList /\ InitMsg /\ InitCal /\ InitRow /\ InitCls
    /\ InitMore

\* The string of any one contact is computed.
InitAnyContact ==
    /\ InitSession /\ InitList /\ InitMsg /\ InitCal /\ InitRow /\ InitCls
    /\ lastFocus = NoFocus
    /\ docOut = NoDoc
    /\ acOut = NoStateChange
    /\ speech = <<>>
    /\ InitTab
    /\ contactIn \in Contacts
    /\ contactOut = <<>>

\* Any one object is classified.
InitAnyNode ==
    /\ InitSession /\ InitList /\ InitMsg /\ InitCal /\ InitRow /\ InitMore
    /\ clsIn \in ClassifyInputs
    /\ clsOut = NotClassified

\* The name of any one row is computed.
InitAnyRow ==
    /\ InitSession /\ InitList /\ InitMsg /\ InitCal /\ InitCls /\ InitMore
    /\ rowIn \in RowInputs
    /\ rowOut = NotComputed

NextSession == Acquire \/ ReadVersion \/ FinishJuggle

NextList == MoveByMessage \/ ListGainFocus \/ RemoteSelectionChanges

NextMsg == FormatReceived

NextRender == GenerateTimeRangeText

NextCal == ReportFocus \/ FinishJuggle

NextRow == GetGridRowName \/ FinishJuggle

NextCls == Classify \/ FinishJuggle

NextFocus ==
    GridGainFocus \/ FinishJuggle \/ ListGainFocus \/ RemoteSelectionChanges

SpecSession == Init /\ [][NextSession]_vars

SpecList == Init /\ [][NextList]_vars

SpecMsg == Init /\ [][NextMsg]_vars

SpecRender == Init /\ [][NextRender]_vars

SpecCal == Init /\ [][NextCal]_vars

SpecRow == InitAnyRow /\ [][NextRow]_vars

SpecCls == InitAnyNode /\ [][NextCls]_vars

SpecFocus == Init /\ [][NextFocus]_vars

NextDoc == ReadDocProperty \/ FinishJuggle

NextContact == GetContactString

NextAc == event_stateChange \/ OtherSpeech

SpecAc == Init /\ [][NextAc]_vars

NextTab == Tab

SpecTab == Init /\ [][NextTab]_vars

SpecContact == InitAnyContact /\ [][NextContact]_vars

SpecDoc == Init /\ [][NextDoc]_vars

\* ------------------------------------------------------------------------
\* Properties of the remote session
\* ------------------------------------------------------------------------
\* C1: over any sequence of reads of nativeOm the waiting dialog is shown at
\* most once, and exactly once as soon as an attempt has failed; a failed
\* attempt returns None, and it shows the dialog iff it is the first failure.
C1_AffordanceOnce ==
    /\ dialogsShown <= 1
    /\ (failures >= 1 => dialogsShown = 1)
    /\ (lastAcquire.failed =>
          /\ lastAcquire.ret = "None"
          /\ (lastAcquire.shown <=> lastAcquire.failIdx = 1))

\* A second failed attempt has returned None without showing the dialog.
C1_Witness ==
    /\ failures = 2
    /\ dialogsShown = 1
    /\ lastAcquire.failed
    /\ lastAcquire.failIdx = 2
    /\ ~lastAcquire.shown
    /\ lastAcquire.ret = "None"

\* C2: once the retry has failed, None is stored and the error has been
\* logged exactly once; from then on None stays stored, no read of nativeOm
\* makes another attempt, logs or shows a dialog, and every read returns None.
C2_PermanentlyFailed ==
    /\ [](failures >= 2 => (nativeOmAttr = "None" /\ errorsLogged = 1))
    /\ [](errorsLogged <= 1)
    /\ [][nativeOmAttr = "None" =>
            /\ nativeOmAttr' = "None"
            /\ attempts' = attempts
            /\ errorsLogged' = errorsLogged
            /\ dialogsShown' = dialogsShown
            /\ (lastAcquire' # lastAcquire => lastAcquire'.ret = "None")]_vars

\* After the permanent failure a read of nativeOm returned None from the
\* stored attribute, without an attempt.
C2_Witness ==
    /\ nativeOmAttr = "None"
    /\ failures = 2
    /\ attempts = 2
    /\ errorsLogged = 1
    /\ pumping = NoPump
    /\ ~lastAcquire.attempted
    /\ lastAcquire.ret = "None"

\* C9 as stated: every read of outlookVersion that returns an integer returns
\* the integer the first such read returned.
C9_VersionImmutable ==
    (~lastRead.raised /\ lastRead.val # -1) => lastRead.val = firstRead

\* C9 as amended: a read of outlookVersion begun once the session is settled
\* (an attempt answered, or the retry failed) returns the same integer as
\* the first such read: the major version when bound, 0 when failed.
C9_VersionStableOnceSettled ==
    (lastRead.settled /\ ~lastRead.raised) =>
        /\ lastRead.val = firstSettledRead
        /\ lastRead.val = IF succeeded THEN MajorVersion ELSE 0

\* A read begun after the session was bound returned the major version,
\* after an earlier read had returned 0.
C9_Witness ==
    /\ lastRead.settled
    /\ ~lastRead.raised
    /\ firstRead = 0
    /\ lastRead.val = MajorVersion
    /\ MajorVersion = 14

\* ------------------------------------------------------------------------
\* Properties of the legacy message list
\* ------------------------------------------------------------------------
\* C3: after a navigation gesture that was sent and after which the read of
\* the selection answered with a message, no focus event was emitted if the
\* message's entryID equals the one held before the gesture, and exactly one,
\* targeted at the item synthesized for that message, if it differs.
C3_FocusEventIffChanged ==
    (/\ lastListOp.op \in MoveByMessageGestures
     /\ lastListOp.readOk
     /\ lastListOp.live # 0
     /\ lastListOp.live = selection) =>
        IF lastListOp.live = lastListOp.old
        THEN lastListOp.events = 0 /\ ~lastListOp.raised
        ELSE /\ lastListOp.events = 1
             /\ ~lastListOp.raised
             /\ lastListOp.target # NoItem
             /\ lastListOp.target.msg = Msg(lastListOp.live)

\* ------------------------------------------------------------------------
\* Properties of the formatting helpers
\* ------------------------------------------------------------------------
\* The pieces of the text in front of the sender, without the blanks.
ReceivedPrefix ==
    LET n == Len(msgOut) - Len(Join(", ", ReceivedNameList(msgIn)))
    IN  SelectSeq(SubSeq(msgOut, 1, n), LAMBDA piece : piece # " ")

Formatted == msgIn # NoMsg

\* The text ends with the sender, subject and received time.
ReceivedBodyKept ==
    LET body == Join(", ", ReceivedNameList(msgIn))
    IN  /\ Len(msgOut) >= Len(body)
        /\ SubSeq(msgOut, Len(msgOut) - Len(body) + 1, Len(msgOut)) = body

PrefixHas(word) == \E i \in 1..Len(ReceivedPrefix) : ReceivedPrefix[i] = word

\* C4 as stated: "unread" is in front of the sender iff the message is
\* unread, "attachment" iff it has an attachment, and with both the order is
\* unread, attachment, sender.
C4_PrefixesUnreadFirst ==
    Formatted =>
        /\ ReceivedBodyKept
        /\ (PrefixHas("unread") <=> msgIn.unread)
        /\ (PrefixHas("attachment") <=> msgIn.attachmentCount > 0)
        /\ (msgIn.unread /\ msgIn.attachmentCount > 0 =>
              ReceivedPrefix = <<"unread", "attachment">>)

\* C4 as amended: the same, but with both the order is attachment, unread,
\* sender.
C4_PrefixesAttachmentFirst ==
    Formatted =>
        /\ ReceivedBodyKept
        /\ (PrefixHas("unread") <=> msgIn.unread)
        /\ (PrefixHas("attachment") <=> msgIn.attachmentCount > 0)
        /\ Len(ReceivedPrefix) =
              (IF msgIn.unread THEN 1 ELSE 0)
              + (IF msgIn.attachmentCount > 0 THEN 1 ELSE 0)
        /\ (msgIn.unread /\ msgIn.attachmentCount > 0 =>
              ReceivedPrefix = <<"attachment", "unread">>)

\* An unread message from Alice with two attachments has been formatted.
C4_Witness ==
    /\ msgIn.unread
    /\ msgIn.attachmentCount = 2
    /\ msgIn.senderName = "Alice"
    /\ msgOut = <<"attachment", " ", "unread", " ", "Alice", ", ",
                  "subject: ", msgIn.subject, ", ",
                  "received: ", msgIn.receivedTime>>

\* ------------------------------------------------------------------------
\* Properties of CalendarView
\* ------------------------------------------------------------------------
AllDayForm(r) == r.timeText = <<DateFormat(r.start), " (all day)">>

\* "{startTime} to {endTime}": the start time, with or without its date in
\* front, " to ", and the end time, with or without its date in front.
RangeForm(r) ==
    \E i \in {1, 3} :
        /\ Len(r.timeText) \in {i + 2, i + 4}
        /\ r.timeText[i] = TimeFormat(r.start)
        /\ r.timeText[i + 1] = " to "
        /\ r.timeText[Len(r.timeText)] = TimeFormat(r.end)

\* C5: a rendering has the all-day form exactly when its slot starts at
\* midnight and ends 86400 seconds after its start, and the
\* "{startTime} to {endTime}" form for every other slot.
C5_AllDayIffExactlyOneDay ==
    lastReport.rendered =>
        IF Second(lastReport.start) + Minute(lastReport.start)
              + Hour(lastReport.start) = 0
           /\ Secs(lastReport.end) - Secs(lastReport.start) = 86400
        THEN AllDayForm(lastReport)
        ELSE RangeForm(lastReport) /\ ~AllDayForm(lastReport)

\* C6: a rendering has the start date in front iff no date was recorded, or
\* the slot's start date differs from the recorded one, or its end date
\* differs from its start date; in the range form the date is directly in
\* front of the start time; and after it the recorded date is its start date.
C6_DatePrefixIffNew ==
    lastReport.rendered =>
        /\ (lastReport.timeText[1] = DateFormat(lastReport.start)
              <=> \/ lastReport.prev = NoDate
                  \/ lastReport.start.day # lastReport.prev
                  \/ lastReport.end.day # lastReport.start.day)
        /\ (lastReport.timeText[1] # DateFormat(lastReport.start)
              => lastReport.timeText[1] = TimeFormat(lastReport.start))
        /\ (~AllDayForm(lastReport) /\ lastReport.timeText[1] = DateFormat(lastReport.start)
              => lastReport.timeText[3] = TimeFormat(lastReport.start))
        /\ lastStartDate = lastReport.start.day

\* An instance rendered a slot within day 1, the date of which another
\* instance had recorded: the text has no date.
C6_Witness ==
    /\ lastReport.rendered
    /\ lastReport.prevBy # 0
    /\ lastReport.by # lastReport.prevBy
    /\ lastReport.prev = 1
    /\ lastReport.start = [day |-> 1, sec |-> 0]
    /\ lastReport.end = [day |-> 1, sec |-> 36000]
    /\ lastReport.timeText = <<"0:0", " to ", "10:0">>

\* C10: every reportFocus ends with an announcement and without an
\* exception; it is the generic one when the version or session
\* precondition is not met or a remote call failed.
C10_AlwaysAnnounces ==
    lastReport.op = "reportFocus" =>
        /\ ~lastReport.escaped
        /\ lastReport.announce \in {"calendar", "generic"}
        /\ (lastReport.failAt # "none" => lastReport.announce = "generic")

\* C19: CalendarView._lastStartDate changes only in a step that ends a
\* reportFocus which spoke the calendar text, and then to the start date of
\* the range spoken; a reportFocus that ends with the generic announcement
\* or with an exception leaves it as it was.
C19_DateChangesOnlyWhenSpoken ==
    [][lastStartDate' # lastStartDate =>
          /\ lastReport'.op = "reportFocus"
          /\ lastReport'.announce = "calendar"
          /\ lastStartDate' = lastReport'.start.day]_vars

\* ------------------------------------------------------------------------
\* UIAGridRow._get_name: properties
\* ------------------------------------------------------------------------
FlagLabels == {oleFlagIconLabels[i] : i \in DOMAIN oleFlagIconLabels}

ImportanceLabelSet == {importanceLabels[i] : i \in DOMAIN importanceLabels}

TrailingTokenSet ==
    {"unread", "meeting request"}
    \cup UNION {Range(SplitBlank(v)) : v \in RowValues}

\* Where a text of the name belongs: state, flag, attachment, importance,
\* version-dependent token, child text.
LabelRank(text) ==
    IF text \in {"expanded", "collapsed"} THEN 0
    ELSE IF text \in FlagLabels THEN 1
    ELSE IF text = "has attachment" THEN 2
    ELSE IF text \in ImportanceLabelSet THEN 3
    ELSE IF text \in TrailingTokenSet THEN 4
    ELSE 5

InOrder(textList) ==
    /\ \A i \in 1..(Len(textList) - 1) :
        LabelRank(textList[i]) <= LabelRank(textList[i + 1])
    /\ \A k \in 0..3 :
        Cardinality({i \in DOMAIN textList : LabelRank(textList[i]) = k}) <= 1

RECURSIVE IsSubseq(_, _)
IsSubseq(a, b) ==
    IF a = <<>> THEN TRUE
    ELSE IF b = <<>> THEN FALSE
    ELSE IF Head(a) = Head(b) THEN IsSubseq(Tail(a), Tail(b))
    ELSE IsSubseq(a, Tail(b))

\* The answers a read of one of the five properties can give.
RowAnswers ==
    [unread |-> {"True", "False"},
     messageClass |-> {"IPM.Note", "IPM.Schedule.Meeting.Request", "IPM.Post"},
     flagIcon |-> {0, 2},
     attachmentCount |-> {0, 1},
     importance |-> {0, 1, 2}]

FailedReads(r) ==
    {p \in DOMAIN RowAnswers :
        r[p] = (IF p \in {"unread", "messageClass"} THEN COMError
                ELSE COMErrorInt)}

\* The selected message was read with the session bound.
RowReadSelection ==
    /\ rowOut # NotComputed
    /\ nativeOmAttr = "om"
    /\ rowIn.selection = "ok"

\* C7: whichever of the five property reads (unread, message class, flag
\* icon, attachment count, importance) fail, the texts of the returned name
\* come in the order state, flag label, attachment label, importance label,
\* version-dependent tokens, child texts; the name computed with a failed
\* read is the name computed with any answer of that read with texts left
\* out; and the only exception that leaves the computation is that of the
\* version read of line 470, never one of the five reads.
C7_LabelOrderStable ==
    /\ rowOut.kind = "name" => InOrder(rowOut.textList)
    /\ (rowOut.kind = "name" /\ RowReadSelection) =>
        \A p \in FailedReads(rowIn) : \A v \in RowAnswers[p] :
            IsSubseq(rowOut.textList,
                     GridRowName([rowIn EXCEPT ![p] = v], "om", TRUE).textList)
    /\ rowOut.kind = "raised" => rowOut.by = "version"
    /\ (RowReadSelection /\ rowOut.kind # "raised") =>
        rowOut.kind \in {"name", "base"}

\* C7 witness: the flag read failed on a version 15 row, and the name has
\* the attachment label, then the importance label, then a token of the
\* value, then the child texts.
C7_Witness ==
    /\ RowReadSelection
    /\ rowOut.kind = "name"
    /\ rowIn.flagIcon = COMErrorInt
    /\ rowIn.unread = COMError
    /\ rowOut.textList = <<"has attachment", "high importance", "Replied",
                           "From Alice,", "Hi,">>

\* ------------------------------------------------------------------------
\* chooseNVDAObjectOverlayClasses: properties
\* ------------------------------------------------------------------------
\* The object was classified, its candidate list had the Dialog behaviour
\* and its parent window is of class AfxWndW.
DialogOnEmbeddedForm ==
    /\ clsOut # NotClassified
    /\ In("Dialog", clsIn.clsList)
    /\ clsIn.obj.parentWindow = "AfxWndW"

\* C8 as stated: a classified object of any backend whose candidate list had
\* the Dialog behaviour and whose parent window is of class AfxWndW has no
\* Dialog behaviour in the resulting list.
C8_DialogNeverRetained ==
    DialogOnEmbeddedForm => ~In("Dialog", clsOut.clsList)

\* C8 amended: the Dialog behaviour is removed for IAccessible objects only
\* (also when the call ends early or with an exception), the rest of the
\* candidate list staying in its order; an object of another backend leaves
\* the call at line 173 with the Dialog behaviour still in its list.
C8_DialogRemovedForIAccessible ==
    DialogOnEmbeddedForm =>
        IF clsIn.obj.backend = "IAccessible"
        THEN /\ ~In("Dialog", clsOut.clsList)
             /\ IsSubseq(Remove(clsIn.clsList, "Dialog"), clsOut.clsList)
        ELSE /\ In("Dialog", clsOut.clsList)
             /\ IsSubseq(clsIn.clsList, clsOut.clsList)

\* C8 witness: an IAccessible dialog inside an AfxWndW form whose own window
\* is of another class lost the Dialog behaviour.
C8_Witness ==
    /\ DialogOnEmbeddedForm
    /\ clsIn.obj.backend = "IAccessible"
    /\ ClassName(clsIn.obj.windowClassName) = "#32770"
    /\ clsIn.clsList = <<"Dialog", "IAccessible">>
    /\ clsOut = [kind |-> "returned", clsList |-> <<"IAccessible">>]

\* ------------------------------------------------------------------------
\* SuperGridClient2010.event_gainFocus: properties
\* ------------------------------------------------------------------------
\* A focus event on a grid client has been handled to its end.
GridFocusHandled == lastFocus.trace # <<>>

\* The conditions the handler re-dispatches under: version at least 14, a
\* UIA handler, a fetched focus object, and that object a UIAGridRow.
RedispatchConditions ==
    /\ lastFocus.version >= 14
    /\ lastFocus.uia = "handler"
    /\ lastFocus.fetch \in {"LeafRow", "ThreadItem", "ThreadHeader"}

\* C11 as stated: every focus event on a grid client ends in exactly one of
\* the base focus handling and a re-dispatch on the re-parented UIA focus
\* object, the re-dispatch exactly when the version is at least 14, UIA is
\* available, the fetch succeeds and its result is a grid row.
C11_BaseXorRedispatch ==
    GridFocusHandled =>
        /\ lastFocus.trace[1].outcome \in {"base", "redispatch"}
        /\ (lastFocus.trace[1].outcome = "redispatch") = RedispatchConditions
        /\ lastFocus.reparented = RedispatchConditions

Redispatches(trace) ==
    Cardinality({i \in DOMAIN trace : trace[i].outcome = "redispatch"})

\* C12: one incoming focus event causes at most one synchronous re-dispatch.
\* The handlers run for it are at most two, none is left unfollowed, a
\* re-dispatch is handled by the handler of another class, which does the
\* base handling and dispatches nothing; and the message list dispatches at
\* most one event, to a MessageItem.
C12_AtMostOneRedispatch ==
    /\ Len(lastFocus.trace) <= 2
    /\ Redispatches(lastFocus.trace) <= 1
    /\ \A i \in DOMAIN lastFocus.trace :
        /\ lastFocus.trace[i].outcome # "not followed"
        /\ lastFocus.trace[i].outcome = "redispatch" =>
            /\ i < Len(lastFocus.trace)
            /\ lastFocus.trace[i + 1].handler # lastFocus.trace[i].handler
            /\ lastFocus.trace[i + 1].outcome = "base"
    /\ lastListOp.events <= 1
    /\ lastListOp.events = 1 => lastListOp.target.kind = "MessageItem"

\* C12 witness: a grid client re-dispatched the event to a UIAGridRow, whose
\* inherited handler ended the dispatch.
C12_Witness ==
    /\ lastFocus.fetch = "ThreadItem"
    /\ lastFocus.reparented
    /\ lastFocus.trace = <<[handler |-> "SuperGridClient2010",
                            outcome |-> "redispatch"],
                           [handler |-> "base", outcome |-> "base"]>>

\* ------------------------------------------------------------------------
\* OutlookWordDocument: properties
\* ------------------------------------------------------------------------
\* The remote session reported that the active item has been sent.
ReportedSent ==
    docOut.ret = "om" /\ docOut.inspector = "inspector" /\ docOut.sent = "True"

\* C13: a read of role gives the document role, of treeInterceptorClass the
\* mail viewer's browse-mode class, and of shouldCreateTreeInterceptor True,
\* exactly when the session reported at that read that the active item has
\* been sent; with a failed query or no session the read gives the base role,
\* the base class and False.
C13_ReadonlyIffSent ==
    /\ docOut.prop = "role" =>
        docOut.value = IF ReportedSent THEN "ROLE_DOCUMENT" ELSE "super.role"
    /\ docOut.prop = "treeInterceptorClass" =>
        docOut.value = IF ReportedSent THEN "MailViewerTreeInterceptor"
                       ELSE "super.treeInterceptorClass"
    /\ docOut.prop = "shouldCreateTreeInterceptor" =>
        docOut.value = IF ReportedSent THEN "True" ELSE "False"

\* C13 witness: the query of the sent flag failed on a bound session and the
\* role read is the base role.
C13_Witness ==
    /\ docOut.prop = "role"
    /\ docOut.ret = "om"
    /\ docOut.sent = "COMError"
    /\ docOut.value = "super.role"

\* ------------------------------------------------------------------------
\* getContactString: properties
\* ------------------------------------------------------------------------
ContactFields ==
    <<contactIn.fullName, contactIn.companyName, contactIn.jobTitle,
      contactIn.email1address>>

\* The fields that have a character that is not blank.
KeptFields ==
    {i \in DOMAIN ContactFields :
        \E j \in DOMAIN ContactFields[i] : ContactFields[i][j] \notin Whitespace}

\* The n-th of the kept fields, in the order of the record.
NthKept(n) ==
    ContactFields[CHOOSE i \in KeptFields :
                    Cardinality({k \in KeptFields : k <= i}) = n]

\* C14: every call of getContactString on a contact gives the fields
\* fullName, companyName, jobTitle, email1address that are neither empty
\* nor blank, unchanged and in that order, with ", " between them, and two
\* calls on the same contact give the same text.
C14_ContactString ==
    \A c \in DOMAIN contactOut :
        /\ contactOut[c] =
              Join(", ", [n \in 1..Cardinality(KeptFields) |-> NthKept(n)])
        /\ Cardinality({j \in DOMAIN contactOut[c] : contactOut[c][j] = ", "})
              = IF KeptFields = {} THEN 0 ELSE Cardinality(KeptFields) - 1
        /\ contactOut[c] = contactOut[1]

\* C14 witness: a contact with a blank company and an empty title was
\* formatted twice, as the name and the address.
C14_Witness ==
    /\ Len(contactOut) >= 2
    /\ IsSpace(contactIn.companyName)
    /\ contactIn.jobTitle = <<>>
    /\ contactOut[2] = <<" ", "Ann Lee", ", ", "ann@acme">>

\* The overlays the rules after the address book rule install.
LaterOverlays == {"MessageList_pre2003", "SuperGridClient2010", "CalendarView"}

\* C15: a class list that classification put AddressBookEntry in has it at
\* the front and has none of MessageList_pre2003, SuperGridClient2010 and
\* CalendarView; the call returned at line 197, without reading the version
\* of the session.
C15_AddressBookShortCircuits ==
    (clsOut # NotClassified /\ In("AddressBookEntry", clsOut.clsList)) =>
        /\ clsOut.kind = "returned"
        /\ clsOut.clsList[1] = "AddressBookEntry"
        /\ \A i \in DOMAIN clsOut.clsList : clsOut.clsList[i] \notin LaterOverlays
        /\ IsSubseq(Remove(clsIn.clsList, "Dialog"), clsOut.clsList)
        /\ attempts = 0
        /\ lastAcquire = NoAcquire

\* C15 witness: a list item of the address book whose control id is 109 and
\* whose candidate list has a Word document got AddressBookEntry in front.
C15_Witness ==
    /\ clsIn.obj.windowControlID = 109
    /\ clsIn.clsList = <<"WordDocument", "IAccessible">>
    /\ clsOut = [kind |-> "returned",
                 clsList |-> <<"AddressBookEntry", "OutlookWordDocument",
                               "WordDocument", "IAccessible">>]

\* The object classified has the signature of a message list, and the call
\* returned.
MessageListClassified ==
    /\ clsOut.kind = "returned"
    /\ IsMessageList(clsIn.obj)

ClientRoot ==
    clsIn.obj.event_objectID = "OBJID_CLIENT" /\ clsIn.obj.event_childID = 0

\* What outlookVersion returned to line 199.
VersionTag == OutlookVersionOf(lastAcquire.ret, appVersion)

\* The rule of C16 for the version v.
MessageListRule(v) ==
    LET legacy == In("MessageList_pre2003", clsOut.clsList)
        modern == In("SuperGridClient2010", clsOut.clsList)
    IN  /\ legacy = (v \in 1..9)
        /\ v \notin 1..9 => (modern = ClientRoot)
        /\ ~(legacy /\ modern)
        /\ v = 0 => ~legacy

\* C16 as stated: every classified object with the signature of a message
\* list follows the rule (MessageList_pre2003 exactly when the version is
\* in 1..9, otherwise SuperGridClient2010 exactly on the client root), for
\* the version read or, when none was read, for a version the session can
\* give.
C16_MessageListOverlay ==
    MessageListClassified =>
        IF ReadsVersion(clsIn.obj)
        THEN MessageListRule(VersionTag)
        ELSE \E v \in {0, MajorVersion} : MessageListRule(v)

\* C16 amended: an IAccessible object with the signature follows the rule
\* for the version read at line 199; if that read raises, or if the object
\* is of another backend, neither overlay is installed.
C16_MessageListOverlayForIAccessible ==
    /\ (MessageListClassified /\ clsIn.obj.backend = "IAccessible") =>
          /\ ReadsVersion(clsIn.obj)
          /\ MessageListRule(VersionTag)
    /\ (clsOut # NotClassified /\ IsMessageList(clsIn.obj)
        /\ (clsOut.kind = "raised" \/ clsIn.obj.backend # "IAccessible")) =>
          /\ ~In("MessageList_pre2003", clsOut.clsList)
          /\ ~In("SuperGridClient2010", clsOut.clsList)

\* C16 witness: with no session (version 0) the client root of a SUPERGRID
\* window got SuperGridClient2010 and not MessageList_pre2003.
C16_Witness ==
    /\ MessageListClassified
    /\ clsIn.obj.backend = "IAccessible"
    /\ lastAcquire.ret = "None"
    /\ VersionTag = 0
    /\ ClientRoot
    /\ clsIn.clsList = <<"IAccessible">>
    /\ clsOut.clsList = <<"SuperGridClient2010", "IAccessible">>

\* ------------------------------------------------------------------------
\* UIAGridRow._get_name: the tokens of the value and the defaults
\* ------------------------------------------------------------------------
\* The tokens of the value that the name has.
ValueTokens == SelectSeq(rowOut.textList, LAMBDA t : LabelRank(t) = 4)

ValueParts == SplitBlank(rowIn.value)

\* A name was computed in the branch of lines 476-491: version 15 or later
\* and the unread flag and the message class read.
ModernBranch ==
    /\ RowReadSelection
    /\ rowOut.kind = "name"
    /\ MajorVersion >= 15
    /\ rowIn.unread # COMError
    /\ rowIn.messageClass # COMError

C18_ReadLabelsKept ==
    (RowReadSelection /\ rowOut.kind = "name") =>
        /\ rowIn.flagIcon \in DOMAIN oleFlagIconLabels =>
            In(oleFlagIconLabels[rowIn.flagIcon], rowOut.textList)
        /\ rowIn.attachmentCount > 0 => In("has attachment", rowOut.textList)
        /\ rowIn.importance \in DOMAIN importanceLabels =>
            In(importanceLabels[rowIn.importance], rowOut.textList)
        /\ rowIn.unread = "True" =>
            IF MajorVersion < 15 THEN In("unread", rowOut.textList)
            ELSE In(ValueParts[Len(ValueParts)], ValueTokens)
        /\ (rowIn.messageClass = "IPM.Schedule.Meeting.Request"
            /\ MajorVersion < 15) => In("meeting request", rowOut.textList)

\* ------------------------------------------------------------------------
\* AutoCompleteListItem.event_stateChange: properties
\* ------------------------------------------------------------------------
\* The state change was one the item speaks on: the focus is on an edit
\* field or a button and the item is selected, visible, available and on
\* screen.
SpeakingStateChange ==
    /\ acOut.focusRole \in {"ROLE_EDITABLETEXT", "ROLE_BUTTON"}
    /\ "STATE_SELECTED" \in acOut.states
    /\ acOut.states \cap {"STATE_INVISIBLE", "STATE_UNAVAILABLE",
                          "STATE_OFFSCREEN"} = {}

\* C20: after a state change of an autocomplete item, either it was a
\* speaking one, speech was cancelled and then the name spoken, so that the
\* name is all that is being spoken; or it was not, no call was made and
\* what was being spoken still is.
C20_SpeaksIffSelectedVisible ==
    acOut # NoStateChange =>
        IF SpeakingStateChange
        THEN /\ acOut.calls = <<"cancelSpeech", "message">>
             /\ speech = <<acOut.name>>
        ELSE /\ acOut.calls = <<>>
             /\ speech = acOut.before

\* C20 witness: while two texts were being spoken a selected item was
\* announced on an edit field, and its name replaced them.
C20_Witness ==
    /\ acOut.focusRole = "ROLE_EDITABLETEXT"
    /\ acOut.states = {"STATE_SELECTED", "STATE_FOCUSABLE"}
    /\ acOut.before = <<"other", "other">>
    /\ acOut.calls = <<"cancelSpeech", "message">>
    /\ speech = <<"bob@acme">>

\* ------------------------------------------------------------------------
\* MailViewerTreeInterceptor.script_tab: properties
\* ------------------------------------------------------------------------
Occurrences(calls, name) ==
    Cardinality({i \in DOMAIN calls : calls[i] = name})

\* C21: a tab gesture first sends the key.  If the selection is then where
\* it was, nothing else is called.  If it is not, braille is notified
\* exactly once, as the last call; a collapsed selection in a table is
\* spoken as the whole cell it is in, a selection that is not collapsed is
\* spoken as it is, and a collapsed selection outside a table is not spoken.
C21_TabAnnouncesMovedCaret ==
    lastTab # NoTab =>
        /\ lastTab.calls[1] = "gesture.send"
        /\ Occurrences(lastTab.calls, "gesture.send") = 1
        /\ IF lastTab.selection = lastTab.bookmark
           THEN /\ lastTab.calls = <<"gesture.send">>
                /\ lastTab.spoken = NoRange
           ELSE /\ Occurrences(lastTab.calls, "handleCaretMove") = 1
                /\ lastTab.calls[Len(lastTab.calls)] = "handleCaretMove"
                /\ (lastTab.spoken # NoRange)
                      = (lastTab.calls = <<"gesture.send", "speakTextInfo",
                                           "handleCaretMove">>)
                /\ (lastTab.spoken = NoRange)
                      = (lastTab.calls = <<"gesture.send", "handleCaretMove">>)
                /\ lastTab.selection.start # lastTab.selection.end =>
                      lastTab.spoken = lastTab.selection
                /\ lastTab.selection.start = lastTab.selection.end =>
                      IF \E cell \in TableCells :
                            /\ cell.start <= lastTab.selection.start
                            /\ lastTab.selection.start < cell.end
                      THEN /\ lastTab.spoken \in TableCells
                           /\ lastTab.spoken.start <= lastTab.selection.start
                           /\ lastTab.selection.start < lastTab.spoken.end
                      ELSE lastTab.spoken = NoRange

\* C21 witness: shift+tab moved the caret from after the table into its
\* second cell, and the cell was spoken before braille was notified.
C21_Witness ==
    /\ lastTab.gesture = "kb:shift+tab"
    /\ lastTab.bookmark = [start |-> 3, end |-> 3]
    /\ docSel = [start |-> 2, end |-> 2]
    /\ lastTab.spoken = [start |-> 2, end |-> 3]
    /\ lastTab.calls = <<"gesture.send", "speakTextInfo", "handleCaretMove">>

\* ------------------------------------------------------------------------
\* MessageList_pre2003 and MessageItem: construction and the held item
\* ------------------------------------------------------------------------
\* C22: whenever the focus-gained or the navigation handler of the list has
\* read a selection that is present, the item it constructs for it is a
\* MessageItem whose msg is that selection and whose parent is the list, and
\* the handler did not end with an exception.
C22_ConstructionSucceeds ==
    (/\ lastListOp.op \in MoveByMessageGestures \cup {"gainFocus"}
     /\ lastListOp.readOk
     /\ lastListOp.live # 0) =>
        /\ ~lastListOp.raised
        /\ NewMessageItem(ListObj, Msg(lastListOp.live)) # Raised
        /\ NewMessageItem(ListObj, Msg(lastListOp.live)).msg
              = Msg(lastListOp.live)
        /\ NewMessageItem(ListObj, Msg(lastListOp.live)).parent = ListObj

\* C23: the list has at most one child, the held item when there is one;
\* after a focus-gained event or a navigation gesture that read a selection
\* that is present, the held item is the one of that selection; and a focus
\* event emitted by the focus-gained handler comes after the base handler.
C23_HeldItemIsLiveSelection ==
    /\ Len(listChildren) <= 1
    /\ listChildren = IF curMessageItem = NoItem THEN <<>>
                      ELSE <<curMessageItem>>
    /\ (/\ lastListOp.op \in MoveByMessageGestures \cup {"gainFocus"}
        /\ lastListOp.readOk
        /\ lastListOp.live # 0
        /\ lastListOp.live = selection) =>
            /\ curMessageItem # NoItem
            /\ curMessageItem.msg.entryID = selection
    /\ (lastListOp.op = "gainFocus" /\ lastListOp.events > 0) =>
            lastListOp.baseRan

====
